---- MODULE Spec2Model ----
(***************************************************************************)
(* Model of the report Q&A chatbot: the context assembler of QASystem      *)
(* (src/src/s7_qa_system_light.py), the answer pipeline answer_question,   *)
(* the command-line flows of src/test_full_pipeline.py and the Streamlit   *)
(* chat session of src/tmp.py.                                             *)
(*                                                                         *)
(* TLA+ strings are ASCII only, so every Korean literal of the source is   *)
(* written as an ASCII stand-in of the same role; the comment next to each *)
(* gives the original.  Distinct literals stay distinct.                   *)
(***************************************************************************)
EXTENDS Integers, Sequences, FiniteSets, TLC

\* ------------------------------------------------------------------ bounds
\* Longest list of search results handed to build_context.
MaxLen == 2

\* Number of questions submitted in one chat session.
MaxQuestions == 3

\* ---------------------------------------------------------------- state
VARIABLES
    program,        \* which entry point runs: "lib", "cli" or "ui"
    messages,       \* st.session_state.messages: the turns of the chat session
    user_questions, \* st.session_state.user_questions
    qa_system,      \* st.session_state.qa_system is set (not None)
    search_engine,  \* st.session_state.search_engine is set (not None)
    uncaught,       \* the exception that ended the last script run, or "none"
    requests,       \* the calls the last operation made to the chat-completion provider
    lastOp,         \* the last operation: its inputs and what it returned
    ctxCall,        \* the last build_context call: its arguments and result
    prevCitations,  \* the indices the call before rendered, kept when the call repeats it
    rerendered      \* the last call repeated the arguments of the one before

vars == <<program, messages, user_questions, qa_system, search_engine, uncaught,
          requests, lastOp, ctxCall, prevCitations, rerendered>>

sessionVars == <<messages, user_questions, qa_system, search_engine, uncaught>>

\* ------------------------------------------------------- python primitives
Min(a, b) == IF a <= b THEN a ELSE b
Max(a, b) == IF a >= b THEN a ELSE b

\* dict.get(key, default)
Get(d, key, default) == IF key \in DOMAIN d THEN d[key] ELSE default

\* Truthiness of dict.get(key) for a string value: a missing key gives None
\* and an empty string is falsy as well.
Truthy(d, key) == key \in DOMAIN d /\ d[key] # ""

\* seq[:n] the way Python slices: a negative n counts from the end.
PySliceShort(s, n) ==
    IF n >= 0 THEN SubSeq(s, 1, Min(n - 1, Len(s)))
    ELSE SubSeq(s, 1, Max(Len(s) + n, 0))

PySlice(s, n) ==
    IF n >= 0 THEN SubSeq(s, 1, Min(n, Len(s)))
    ELSE SubSeq(s, 1, Max(Len(s) + n, 0))

\* sub in s
RECURSIVE Contains(_, _)
Contains(s, sub) ==
    IF Len(s) < Len(sub) THEN FALSE
    ELSE IF SubSeq(s, 1, Len(sub)) = sub THEN TRUE
    ELSE Contains(SubSeq(s, 2, Len(s)), sub)

\* s.split(sep)[-1]: what follows the last occurrence of the one-character
\* separator, the whole string when it does not occur.
RECURSIVE LastPart(_, _)
LastPart(s, sep) ==
    IF ~Contains(s, sep) THEN s
    ELSE LastPart(SubSeq(s, 2, Len(s)), sep)

\* ------------------------------------------------------------ search results
\* A search result is a dict with optional keys "content" and "metadata";
\* metadata is a dict with optional keys institution, doc_type, page,
\* table_id, image_path.  The pool covers each shape the assembler branches on.
TextResult ==
    [content |-> "c1",
     metadata |-> [institution |-> "kb", doc_type |-> "text", page |-> "1"]]

TableResult ==
    [content |-> "c2",
     metadata |-> [institution |-> "hd", doc_type |-> "table", page |-> "2",
                   table_id |-> "T1"]]

ImageResult ==
    [content |-> "c3",
     metadata |-> [institution |-> "khi", doc_type |-> "image", page |-> "3",
                   image_path |-> "d/f.png"]]

\* An unknown institution, and both identifiers in one metadata dict; the
\* image path uses backslashes.
BothIdsResult ==
    [content |-> "c4",
     metadata |-> [institution |-> "xx", doc_type |-> "table", page |-> "4",
                   table_id |-> "T2", image_path |-> "e\\g.png"]]

\* No content, no page, no institution, an unmapped doc_type, an empty
\* table_id next to an image path without any separator.
SparseResult ==
    [metadata |-> [doc_type |-> "chart", table_id |-> "", image_path |-> "h.png"]]

Pool == <<TextResult, TableResult, ImageResult, BothIdsResult, SparseResult>>

\* Every list of at most n results of the pool.
ResultLists(n) ==
    UNION {{[i \in 1..k |-> Pool[ixs[i]]] : ixs \in [1..k -> 1..Len(Pool)]} : k \in 0..n}

\* The empty dict.
EmptyDict == <<>>

\* ------------------------------------------------- QASystem.build_context
\* "관련 정보를 찾을 수 없습니다."
NoInfo == "No relevant information found."

\* "다음은 2024 KB 부동산 리포트에서 검색된 관련 정보입니다:\n"
Intro == "Relevant information retrieved from the 2024 KB report:\n"

\* institution_map.get(institution, f"{institution} 리포트")
context_source_name(institution) ==
    CASE institution = "hd" -> "HD Hyundai report"
      [] institution = "kb" -> "KB real-estate report"
      [] institution = "khi" -> "KHI housing-finance report"
      [] OTHER -> institution \o " report"

\* doc_type_map.get(metadata.get("doc_type"), "본문")
context_doc_type(metadata) ==
    LET t == Get(metadata, "doc_type", "None")
    IN  CASE t = "text" -> "body"
          [] t = "table" -> "table"
          [] t = "image" -> "graph/image"
          [] OTHER -> "body"

\* image_path.split('\\')[-1] if '\\' in image_path else image_path.split('/')[-1]
image_filename(image_path) ==
    IF Contains(image_path, "\\") THEN LastPart(image_path, "\\")
    ELSE LastPart(image_path, "/")

\* The identifier branch with its two tests in the other order.
extra_info_image_first(metadata) ==
    IF Truthy(metadata, "image_path")
    THEN "\nImage: " \o image_filename(metadata.image_path)
    ELSE IF Truthy(metadata, "table_id")
         THEN "\nTable ID: " \o metadata.table_id
         ELSE ""

\* The "추가 정보" branch: the table id, else the image's file name, else nothing.
\* "\n표 ID: " and "\n이미지: "
extra_info(metadata) ==
    IF Truthy(metadata, "table_id") THEN "\nTable ID: " \o metadata.table_id
    ELSE IF Truthy(metadata, "image_path")
         THEN "\nImage: " \o image_filename(metadata.image_path)
         ELSE ""

\* "[컨텍스트 {i}]"
ContextHeader(i) == "[Context " \o ToString(i) \o "]"

\* "출처: [{i}] "
CitePrefix(i) == "Source: [" \o ToString(i) \o "] "

\* One formatted block, line by line as the f-string lays it out.
\* "출처 기관: ", "타입: ", "페이지: {page}페이지", "내용:"
formatted(i, result) ==
    LET metadata == Get(result, "metadata", EmptyDict)
        content == Get(result, "content", "")
        source_name == context_source_name(Get(metadata, "institution", "unknown"))
        doc_type == context_doc_type(metadata)
        page == Get(metadata, "page", "unknown")
    IN  [header |-> ContextHeader(i),
         source_line |-> "Institution: " \o source_name,
         type_line |-> "Type: " \o doc_type,
         page_line |-> "Page: " \o page \o "p" \o extra_info(metadata),
         content |-> content,
         cite_line |-> CitePrefix(i) \o source_name \o " " \o doc_type
                        \o " (" \o page \o "p)"]

\* build_context without its empty-input guard: an empty list renders the
\* intro and no block.
build_context_unguarded(search_results, max_chunks) ==
    LET top_results == PySlice(search_results, max_chunks)
    IN  [text |-> Intro,
         blocks |-> [i \in 1..Len(top_results) |-> formatted(i, top_results[i])]]

\* build_context with a citation counter kept across calls: numbering goes on
\* from the last index of the context built before.
build_context_running(search_results, max_chunks) ==
    IF search_results = <<>>
    THEN [text |-> NoInfo, blocks |-> <<>>]
    ELSE LET top_results == PySlice(search_results, max_chunks)
             base == Len(ctxCall.context.blocks)
         IN  [text |-> Intro,
              blocks |-> [i \in 1..Len(top_results) |->
                             formatted(base + i, top_results[i])]]

\* The context string, kept as its parts: "\n".join(context_parts) lays the
\* intro and then the blocks out in list order (each followed by a separator
\* line), so text is the first part and blocks are the formatted parts.
build_context(search_results, max_chunks) ==
    IF search_results = <<>>
    THEN [text |-> NoInfo, blocks |-> <<>>]
    ELSE LET top_results == PySlice(search_results, max_chunks)
         IN  [text |-> Intro,
              blocks |-> [i \in 1..Len(top_results) |-> formatted(i, top_results[i])]]

\* The citation index a block shows in its header, -1 when it shows none.
HeaderIndex(block) ==
    IF \E i \in 0..20 : block.header = ContextHeader(i)
    THEN CHOOSE i \in 0..20 : block.header = ContextHeader(i)
    ELSE -1

Citations(context) == [j \in 1..Len(context.blocks) |-> HeaderIndex(context.blocks[j])]

NoCall == [built |-> FALSE, search_results |-> <<>>, max_chunks |-> 5,
           context |-> [text |-> "", blocks |-> <<>>]]

\* max_chunks values handed to build_context: negative, zero, below, at and
\* above the list length.
ChunkLimits == -1..(MaxLen + 1)

\* The call repeats the arguments of the build_context call before it.
SameCall(search_results, max_chunks) ==
    /\ ctxCall.built
    /\ search_results = ctxCall.search_results
    /\ max_chunks = ctxCall.max_chunks

\* The bookkeeping of one build_context call.
RecordContext(search_results, max_chunks) ==
    /\ ctxCall' = [built |-> TRUE, search_results |-> search_results,
                   max_chunks |-> max_chunks,
                   context |-> build_context(search_results, max_chunks)]
    /\ rerendered' = SameCall(search_results, max_chunks)
    /\ prevCitations' = IF SameCall(search_results, max_chunks)
                        THEN Citations(ctxCall.context) ELSE <<>>

\* ------------------------------------------------- the provider's outcomes
\* Optional[str]
None == [none |-> TRUE, value |-> ""]
Some(text) == [none |-> FALSE, value |-> text]

\* "not answer": None and the empty string are both falsy.
Falsy(opt) == opt.none \/ opt.value = ""

\* What a chat-completion call can do: return text, return the empty
\* string, or raise.
LlmOutcomes == {"text", "empty", "raise"}

Questions == {"q1", "q2"}

NoContext == [text |-> "", blocks |-> <<>>]

\* One entry of the messages list of a chat-completion request.  The user
\* prompt of generate_answer is f"{context}\n\n사용자 질문: {query}\n\n...", kept
\* as its context and its query; text holds any other content.
Message(role, text, context, query) ==
    [role |-> role, text |-> text, context |-> context, query |-> query]

\* --------------------------------------------------- QASystem.rewrite_query
\* The rewritten text the provider returns for query.
Rewritten(query) == "rw:" \o query

\* Returns the stripped text of the reply, the query itself when the call raises.
rewrite_query(query, llm) ==
    LET request == [kind |-> "rewrite", model |-> "gpt-4o-mini",
                    messages |-> <<Message("system", "rewrite_system", NoContext, ""),
                                   Message("user", "rewrite_prompt", NoContext, query)>>]
    IN  [value |-> CASE llm = "text" -> Rewritten(query)
                     [] llm = "empty" -> ""
                     [] OTHER -> query,
         requests |-> <<request>>,
         failed |-> llm = "raise"]

\* ------------------------------------------------- QASystem.generate_answer
\* The names generate_answer accepts besides self.
generate_answer_params == {"query", "context", "temperature", "max_tokens"}

\* The body: one request holding the system prompt and the user prompt; the
\* answer text, None when the call raises.
generate_answer(query, context, llm) ==
    LET request == [kind |-> "answer", model |-> "gpt-4o",
                    messages |-> <<Message("system", "system_prompt", NoContext, ""),
                                   Message("user", "", context, query)>>]
    IN  [answer |-> CASE llm = "text" -> Some("answer to " \o query)
                      [] llm = "empty" -> Some("")
                      [] OTHER -> None,
         requests |-> <<request>>]

\* ------------------------------------------------- QASystem.answer_question
\* "답변 생성에 실패했습니다."
GenerationFailed == "Answer generation failed."

\* max_chunks: int = 5
DefaultMaxChunks == 5

\* answer_question giving up the search results when the rewrite fails.
answer_question_rewrite_first(query, search_results, rewrite, rewriteLlm, answerLlm) ==
    LET rw == IF rewrite THEN rewrite_query(query, rewriteLlm)
              ELSE [value |-> query, requests |-> <<>>, failed |-> FALSE]
        context == build_context(IF rw.failed THEN <<>> ELSE search_results,
                                 DefaultMaxChunks)
        gen == generate_answer(rw.value, context, answerLlm)
    IN  [result |-> IF Falsy(gen.answer) THEN GenerationFailed ELSE gen.answer.value,
         generation |-> IF Falsy(gen.answer) THEN "failed" ELSE "ok",
         context |-> context,
         requests |-> rw.requests \o gen.requests]

answer_question(query, search_results, rewrite, rewriteLlm, answerLlm) ==
    LET rw == IF rewrite THEN rewrite_query(query, rewriteLlm)
              ELSE [value |-> query, requests |-> <<>>, failed |-> FALSE]
        context == build_context(search_results, DefaultMaxChunks)
        gen == generate_answer(rw.value, context, answerLlm)
    IN  [result |-> IF Falsy(gen.answer) THEN GenerationFailed ELSE gen.answer.value,
         generation |-> IF Falsy(gen.answer) THEN "failed" ELSE "ok",
         context |-> context,
         requests |-> rw.requests \o gen.requests]

\* ------------------------------------------------ SearchEngine.hybrid_search
\* The fused rankings a query can have: no hit, one hit, and more hits than a
\* small top_k.
Rankings ==
    {<<>>,
     <<TextResult>>,
     <<BothIdsResult, ImageResult, TableResult>>}

\* The flag of degraded operation a result's metadata carries when the
\* embedding call failed and the fusion went on with the lexical list alone
\* (spec 7: "flagged in result metadata").
MarkDegraded(result) ==
    [result EXCEPT !.metadata = [degraded |-> "lexical_only"] @@ result.metadata]

\* The result without that flag.
Unflag(result) ==
    IF "metadata" \in DOMAIN result
    THEN [result EXCEPT !.metadata =
            [k \in DOMAIN result.metadata \ {"degraded"} |-> result.metadata[k]]]
    ELSE result

UnflagAll(results) == [i \in 1..Len(results) |-> Unflag(results[i])]

\* A search raises, or has a fused ranking to cut, or, its embedding call
\* having failed, has the lexical ranking alone, each result flagged.
SearchOutcomes ==
    {[raised |-> TRUE, ranking |-> <<>>, degraded |-> FALSE]}
        \cup {[raised |-> FALSE, ranking |-> r, degraded |-> FALSE] : r \in Rankings}
        \cup {[raised |-> FALSE,
               ranking |-> [i \in 1..Len(r) |-> MarkDegraded(r[i])],
               degraded |-> TRUE] : r \in Rankings \ {<<>>}}

\* hybrid_search(query, top_k): the first top_k of the fused ranking.
hybrid_search(ranking, top_k) == PySlice(ranking, top_k)

\* ------------------------------------------------------- operations' records
NoOp == [kind |-> "none", query |-> "", top_k |-> 0, use_conversation |-> FALSE,
         search |-> [raised |-> FALSE, ranking |-> <<>>, degraded |-> FALSE],
         search_query |-> "", rewrite |-> FALSE, rewriteLlm |-> "none",
         answerLlm |-> "none", generation |-> "none",
         response |-> "", assistant_before |-> 0]

\* The number of assistant turns in a list of turns.
RECURSIVE AssistantTurns(_)
AssistantTurns(turns) ==
    IF turns = <<>> THEN 0
    ELSE (IF turns[1].role = "assistant" THEN 1 ELSE 0) + AssistantTurns(Tail(turns))

\* ------------------------------------------- build_context called directly
InitCtx ==
    /\ program = "lib"
    /\ messages = <<>>
    /\ user_questions = <<>>
    /\ qa_system = TRUE
    /\ search_engine = FALSE
    /\ uncaught = "none"
    /\ requests = <<>>
    /\ lastOp = NoOp
    /\ ctxCall = NoCall
    /\ prevCitations = <<>>
    /\ rerendered = FALSE

\* qa_system.build_context(search_results, max_chunks)
BuildContext(search_results, max_chunks) ==
    /\ program = "lib"
    /\ RecordContext(search_results, max_chunks)
    /\ UNCHANGED <<program, sessionVars, requests, lastOp>>

NextCtx ==
    \E search_results \in ResultLists(MaxLen), max_chunks \in ChunkLimits :
        BuildContext(search_results, max_chunks)

SpecCtx == InitCtx /\ [][NextCtx]_vars

\* ------------------------------------------------ src/test_full_pipeline.py
\* hybrid_search(query, top_k=5)
PipelineTopK == 5

\* One round of interactive_mode's loop (and the body of
\* test_single_institution): search with top_k = 5, then answer_question with
\* rewrite = True.  A search that raises is caught by the loop and printed.
\* The loop goes on round after round; no other test runs beside it.
InteractiveRound(query, search, rewriteLlm, answerLlm) ==
    /\ program = "cli"
    /\ lastOp.kind \in {"none", "interactive"}
    /\ IF search.raised
       THEN /\ requests' = <<>>
            /\ lastOp' = [NoOp EXCEPT !.kind = "interactive", !.query = query,
                                      !.top_k = PipelineTopK, !.search = search,
                                      !.search_query = query,
                                      !.response = "search raised"]
            /\ UNCHANGED <<ctxCall, prevCitations, rerendered>>
       ELSE LET search_results == hybrid_search(search.ranking, PipelineTopK)
                out == answer_question(query, search_results, TRUE,
                                       rewriteLlm, answerLlm)
            IN  /\ requests' = out.requests
                /\ lastOp' = [NoOp EXCEPT !.kind = "interactive", !.query = query,
                                          !.top_k = PipelineTopK, !.search = search,
                                          !.search_query = query,
                                          !.rewrite = TRUE,
                                          !.rewriteLlm = rewriteLlm,
                                          !.answerLlm = answerLlm,
                                          !.generation = out.generation,
                                          !.response = out.result]
                /\ RecordContext(search_results, DefaultMaxChunks)
    /\ UNCHANGED <<program, sessionVars>>

\* test_search_types, the one test of its run of the script (__main__ runs
\* the test the menu choice names): the hybrid results answered with
\* rewrite = False; a search that raises ends the test.
SearchTypesTest(query, search, answerLlm) ==
    /\ program = "cli"
    /\ lastOp.kind = "none"
    /\ ~search.raised
    /\ LET search_results == hybrid_search(search.ranking, PipelineTopK)
           out == answer_question(query, search_results, FALSE, "text", answerLlm)
       IN  /\ requests' = out.requests
           /\ lastOp' = [NoOp EXCEPT !.kind = "search_types", !.query = query,
                                     !.top_k = PipelineTopK, !.search = search,
                                     !.search_query = query,
                                     !.answerLlm = answerLlm,
                                     !.generation = out.generation,
                                     !.response = out.result]
           /\ RecordContext(search_results, DefaultMaxChunks)
    /\ UNCHANGED <<program, sessionVars>>

\* institutions = ["hd", "kb", "khi"]
Institutions == <<"hd", "kb", "khi">>

\* hybrid_search(query, top_k=3) of test_multi_institution
MultiTopK == 3

\* query = "2024년 부동산 시장 전망은?"
MultiQuery == "real-estate market outlook for 2024?"

\* all_results after the loop over the institutions: the results of every
\* institution whose search did not raise, in the order of the institutions.
RECURSIVE CollectResults(_)
CollectResults(searches) ==
    IF searches = <<>> THEN <<>>
    ELSE (IF Head(searches).raised THEN <<>>
          ELSE hybrid_search(Head(searches).ranking, MultiTopK))
            \o CollectResults(Tail(searches))

\* test_multi_institution, the one test of its run of the script: every
\* institution searched with top_k = 3, a failing one skipped, and the
\* collected results answered with rewrite = True; with nothing collected no
\* answer is asked for.
TestMultiInstitution(searches, rewriteLlm, answerLlm) ==
    /\ program = "cli"
    /\ lastOp.kind = "none"
    /\ LET all_results == CollectResults(searches)
       IN  IF all_results = <<>>
           THEN /\ requests' = <<>>
                /\ lastOp' = [searches |-> searches, all_results |-> all_results]
                             @@ [NoOp EXCEPT !.kind = "multi", !.query = MultiQuery,
                                             !.top_k = MultiTopK,
                                             !.search_query = MultiQuery]
                /\ UNCHANGED <<ctxCall, prevCitations, rerendered>>
           ELSE LET out == answer_question(MultiQuery, all_results, TRUE,
                                           rewriteLlm, answerLlm)
                IN  /\ requests' = out.requests
                    /\ lastOp' = [searches |-> searches, all_results |-> all_results]
                                 @@ [NoOp EXCEPT !.kind = "multi", !.query = MultiQuery,
                                                 !.top_k = MultiTopK,
                                                 !.search_query = MultiQuery,
                                                 !.rewrite = TRUE,
                                                 !.rewriteLlm = rewriteLlm,
                                                 !.answerLlm = answerLlm,
                                                 !.generation = out.generation,
                                                 !.response = out.result]
                    /\ RecordContext(all_results, DefaultMaxChunks)
    /\ UNCHANGED <<program, sessionVars>>

\* ------------------------------------------------------------- src/tmp.py
\* "⚠️ QA 시스템이 초기화되지 않았습니다. .env 파일에 OPENAI_API_KEY를 설정해주세요."
QaMissing == "QA system is not initialized."

\* "⚠️ 벡터 DB가 로드되지 않았습니다. 먼저 문서를 업로드하고 벡터 DB를 생성해주세요."
VectorDbMissing == "Vector DB is not loaded."

\* f"오류가 발생했습니다: {str(e)}"
ErrorResponse(e) == "An error occurred: " \o e

\* str(e) of the exception a failing search raises.
SearchError == "search failed"

\* str(e) of the TypeError Python raises when a call names a parameter the
\* function does not have.
UnexpectedKeyword(name) ==
    "generate_answer() got an unexpected keyword argument '" \o name \o "'"

\* The values of the top_k slider the model tries (the slider runs 1..10,
\* default 5).
TopKs == {1, 5}

\* content[:300]
ReferenceTextLimit == 300

\* The keyword arguments generate_response passes to generate_answer next to
\* the positional query and context.
generate_response_keywords == {"temperature", "use_history"}

\* Python binds a call's arguments before the body runs: with a keyword the
\* function does not accept the call raises TypeError and sends nothing.
call_generate_answer(keywords, query, context, llm) ==
    IF keywords \subseteq generate_answer_params
    THEN [raised |-> "none"] @@ generate_answer(query, context, llm)
    ELSE [raised |-> UnexpectedKeyword(CHOOSE k \in keywords : k \notin generate_answer_params),
          answer |-> None,
          requests |-> <<>>]

\* institution_map.get(institution, institution): "HD 현대", "KB금융", "KHI 주택금융"
reference_source_name(institution) ==
    CASE institution = "hd" -> "HD Hyundai"
      [] institution = "kb" -> "KB Financial"
      [] institution = "khi" -> "KHI housing finance"
      [] OTHER -> institution

\* doc_type_map.get(metadata.get("doc_type"), "본문"): "본문", "표", "그래프"
reference_doc_type(metadata) ==
    LET t == Get(metadata, "doc_type", "None")
    IN  CASE t = "text" -> "body"
          [] t = "table" -> "table"
          [] t = "image" -> "graph"
          [] OTHER -> "body"

\* One entry of the references list.
reference(result) ==
    LET metadata == Get(result, "metadata", EmptyDict)
        content == Get(result, "content", "")
        source_name == reference_source_name(Get(metadata, "institution", "unknown"))
    IN  [page |-> Get(metadata, "page", "N/A"),
         text |-> SubSeq(content, 1, Min(ReferenceTextLimit, Len(content))),
         source |-> source_name \o " - " \o reference_doc_type(metadata),
         institution |-> source_name]

\* The entries of the shown results, last result first.
references_last_first(search_results, top_k) ==
    LET shown == PySlice(search_results, top_k)
    IN  [i \in 1..Len(shown) |-> reference(shown[Len(shown) + 1 - i])]

\* references: one entry for each of search_results[:top_k], in their order.
references_of(search_results, top_k) ==
    LET shown == PySlice(search_results, top_k)
    IN  [i \in 1..Len(shown) |-> reference(shown[i])]

\* What generate_response returns, with what it did on the way: the response
\* text and the references, whether the search and build_context ran, the
\* requests sent to the provider, and how the generate_answer call ended
\* ("none": not reached, "raised", "failed": no answer, "ok").
Response(response, references, searched, search_results, sent, generation) ==
    [response |-> response, references |-> references, searched |-> searched,
     search_results |-> search_results, requests |-> sent,
     generation |-> generation]

generate_response(query, top_k, use_conversation, search, llm) ==
    IF ~qa_system THEN Response(QaMissing, <<>>, FALSE, <<>>, <<>>, "none")
    ELSE IF ~search_engine THEN Response(VectorDbMissing, <<>>, FALSE, <<>>, <<>>, "none")
    ELSE IF search.raised
    THEN Response(ErrorResponse(SearchError), <<>>, FALSE, <<>>, <<>>, "none")
    ELSE LET search_results == hybrid_search(search.ranking, top_k)
             context == build_context(search_results, top_k)
             gen == call_generate_answer(generate_response_keywords, query, context, llm)
         IN  IF gen.raised # "none"
             THEN Response(ErrorResponse(gen.raised), <<>>, TRUE, search_results,
                           gen.requests, "raised")
             ELSE IF Falsy(gen.answer)
             THEN Response(GenerationFailed, <<>>, TRUE, search_results,
                           gen.requests, "failed")
             ELSE Response(gen.answer.value, references_of(search_results, top_k),
                           TRUE, search_results, gen.requests, "ok")

\* The handler storing an assistant turn for an answer only: a response that
\* is a failure message is shown but not stored.
HandleInputAnswersOnly(user_input, top_k, use_conversation, search, llm) ==
    LET out == generate_response(user_input, top_k, use_conversation, search, llm)
    IN  /\ user_questions' = Append(user_questions, user_input)
        /\ messages' = messages \o
              <<[role |-> "user", content |-> user_input]>> \o
              (IF out.generation = "ok"
               THEN <<[role |-> "assistant", content |-> out.response,
                       references |-> out.references]>>
               ELSE <<>>)
        /\ uncaught' = "none"
        /\ requests' = out.requests
        /\ lastOp' = [NoOp EXCEPT
                      !.kind = "chat", !.query = user_input, !.top_k = top_k,
                      !.use_conversation = use_conversation,
                      !.search = IF qa_system /\ search_engine THEN search
                                 ELSE NoOp.search,
                      !.search_query = IF qa_system /\ search_engine
                                       THEN user_input ELSE "",
                      !.generation = out.generation,
                      !.response = out.response,
                      !.assistant_before = AssistantTurns(messages)]
        /\ IF out.searched
           THEN RecordContext(out.search_results, top_k)
           ELSE UNCHANGED <<ctxCall, prevCitations, rerendered>>
        /\ UNCHANGED <<program, qa_system, search_engine>>

\* The chat input handler: the question goes to user_questions and to
\* messages, the response of generate_response follows it as an assistant
\* turn, and the script reruns.
HandleInput(user_input, top_k, use_conversation, search, llm) ==
    LET out == generate_response(user_input, top_k, use_conversation, search, llm)
    IN  /\ user_questions' = Append(user_questions, user_input)
        /\ messages' = messages \o
              <<[role |-> "user", content |-> user_input],
                [role |-> "assistant", content |-> out.response,
                 references |-> out.references]>>
        /\ uncaught' = "none"
        /\ requests' = out.requests
        /\ lastOp' = [NoOp EXCEPT
                      !.kind = "chat", !.query = user_input, !.top_k = top_k,
                      !.use_conversation = use_conversation,
                      !.search = IF qa_system /\ search_engine THEN search
                                 ELSE NoOp.search,
                      !.search_query = IF qa_system /\ search_engine
                                       THEN user_input ELSE "",
                      !.generation = out.generation,
                      !.response = out.response,
                      !.assistant_before = AssistantTurns(messages)]
        /\ IF out.searched
           THEN RecordContext(out.search_results, top_k)
           ELSE UNCHANGED <<ctxCall, prevCitations, rerendered>>
        /\ UNCHANGED <<program, qa_system, search_engine>>

\* A question typed into st.chat_input.
ChatInput(user_input, top_k, use_conversation, search, llm) ==
    /\ program = "ui"
    /\ Len(user_questions) < MaxQuestions
    /\ HandleInput(user_input, top_k, use_conversation, search, llm)

\* user_questions[-4:][::-1]
RecentShown == 4

recent_questions ==
    LET n == Len(user_questions)
        last == SubSeq(user_questions, Max(n - RecentShown, 0) + 1, n)
    IN  [i \in 1..Len(last) |-> last[Len(last) + 1 - i]]

\* A click on one of the recent-question buttons: the question becomes
\* selected_question and the same run handles it as the input.
RecentQuestion(idx, top_k, use_conversation, search, llm) ==
    /\ program = "ui"
    /\ Len(user_questions) < MaxQuestions
    /\ idx \in 1..Len(recent_questions)
    /\ HandleInput(recent_questions[idx], top_k, use_conversation, search, llm)

\* The reset handler with its two statements in the other order: the call on
\* the QA system first, the assignment after it.
ResetButtonCallFirst ==
    /\ program = "ui"
    /\ messages' = IF qa_system THEN messages ELSE <<>>
    /\ uncaught' = IF qa_system THEN "AttributeError: clear_history" ELSE "none"
    /\ requests' = <<>>
    /\ lastOp' = [NoOp EXCEPT !.kind = "reset",
                              !.assistant_before = AssistantTurns(messages)]
    /\ UNCHANGED <<program, user_questions, qa_system, search_engine,
                   ctxCall, prevCitations, rerendered>>

\* The reset button: messages is emptied, then clear_history is called on the
\* QA system when there is one.  QASystem has no clear_history, so that call
\* raises AttributeError, which nothing catches: the run ends there, before
\* st.rerun().
ResetButton ==
    /\ program = "ui"
    /\ messages' = <<>>
    /\ uncaught' = IF qa_system THEN "AttributeError: clear_history" ELSE "none"
    /\ requests' = <<>>
    /\ lastOp' = [NoOp EXCEPT !.kind = "reset",
                              !.assistant_before = AssistantTurns(messages)]
    /\ UNCHANGED <<program, user_questions, qa_system, search_engine,
                   ctxCall, prevCitations, rerendered>>

\* ------------------------------------------------------------ specification
\* The pipeline script builds both components before it asks anything; the
\* chat session starts with whichever components its start-up could build.
Init ==
    /\ program \in {"cli", "ui"}
    /\ messages = <<>>
    /\ user_questions = <<>>
    /\ qa_system \in BOOLEAN
    /\ search_engine \in BOOLEAN
    /\ (program = "cli") => (qa_system /\ search_engine)
    /\ uncaught = "none"
    /\ requests = <<>>
    /\ lastOp = NoOp
    /\ ctxCall = NoCall
    /\ prevCitations = <<>>
    /\ rerendered = FALSE

Next ==
    \/ \E query \in Questions, search \in SearchOutcomes,
          rewriteLlm \in LlmOutcomes, answerLlm \in LlmOutcomes :
            InteractiveRound(query, search, rewriteLlm, answerLlm)
    \/ \E query \in Questions, search \in SearchOutcomes, answerLlm \in LlmOutcomes :
            SearchTypesTest(query, search, answerLlm)
    \/ \E searches \in [1..Len(Institutions) -> SearchOutcomes],
          rewriteLlm \in LlmOutcomes, answerLlm \in LlmOutcomes :
            TestMultiInstitution(searches, rewriteLlm, answerLlm)
    \/ \E user_input \in Questions, top_k \in TopKs, use_conversation \in BOOLEAN,
          search \in SearchOutcomes, llm \in LlmOutcomes :
            ChatInput(user_input, top_k, use_conversation, search, llm)
    \/ \E idx \in 1..RecentShown, top_k \in TopKs, use_conversation \in BOOLEAN,
          search \in SearchOutcomes, llm \in LlmOutcomes :
            RecentQuestion(idx, top_k, use_conversation, search, llm)
    \/ ResetButton

Spec == Init /\ [][Next]_vars

\* ------------------------------------------------ claims on build_context
\* The results build_context renders for the last call, in order.
Rendered == PySlice(ctxCall.search_results, ctxCall.max_chunks)

StartsWith(s, prefix) == Len(s) >= Len(prefix) /\ SubSeq(s, 1, Len(prefix)) = prefix

\* C1: for any result list R and any max_chunks >= 1, build_context renders
\* exactly N = min(len(R), max_chunks) blocks; block j shows index j both in
\* its "[Context j]" header and in its "Source: [j]" line and renders R[j],
\* so the indices are 1..N in the supplied order, no gap and no duplicate.
C1_CitationIndices ==
    (ctxCall.built /\ ctxCall.max_chunks >= 1) =>
        LET R == ctxCall.search_results
            N == Min(Len(R), ctxCall.max_chunks)
            blocks == ctxCall.context.blocks
        IN  /\ Len(blocks) = N
            /\ \A j \in 1..Len(blocks) :
                /\ blocks[j].header = ContextHeader(j)
                /\ StartsWith(blocks[j].cite_line, CitePrefix(j))
                /\ j <= Len(R) /\ blocks[j].content = Get(R[j], "content", "")

\* A two-result list cut to one block by max_chunks = 1.
C1_Witness ==
    /\ ctxCall.built
    /\ ctxCall.max_chunks = 1
    /\ Len(ctxCall.search_results) = 2
    /\ Len(ctxCall.context.blocks) = 1

\* C2: given an empty result list, build_context returns the fixed
\* "no relevant information" sentinel, never the empty string and no
\* block, whatever max_chunks is.
C2_EmptySentinel ==
    (ctxCall.built /\ ctxCall.search_results = <<>>) =>
        /\ ctxCall.context.text = NoInfo
        /\ ctxCall.context.text # ""
        /\ ctxCall.context.blocks = <<>>

\* The empty list rendered with a negative max_chunks.
C2_Witness ==
    /\ ctxCall.built
    /\ ctxCall.search_results = <<>>
    /\ ctxCall.max_chunks = -1
    /\ ctxCall.context.text = NoInfo

\* C9: citation numbering does not leak across calls: whatever was built
\* before, a new context numbers its blocks 1, 2, ... again, and a call that
\* repeats the arguments of the one before shows the same indices.
C9_NoLeakAcrossCalls ==
    ctxCall.built =>
        /\ Citations(ctxCall.context) = [j \in 1..Len(ctxCall.context.blocks) |-> j]
        /\ rerendered => Citations(ctxCall.context) = prevCitations

\* A non-empty context rendered a second time from the same arguments.
C9_Witness ==
    /\ ctxCall.built
    /\ rerendered
    /\ Len(prevCitations) = 2
    /\ Len(ctxCall.context.blocks) = 2

\* What every block states whichever identifiers the metadata holds: the
\* content verbatim, the source label, the content type and the page.
BlockStatesBasics(block, result) ==
    LET metadata == Get(result, "metadata", EmptyDict)
    IN  /\ block.content = Get(result, "content", "")
        /\ Contains(block.source_line,
                    context_source_name(Get(metadata, "institution", "unknown")))
        /\ Contains(block.type_line, context_doc_type(metadata))
        /\ Contains(block.page_line, Get(metadata, "page", "unknown"))

\* C10 as claimed: every block states the basics and every identifier its
\* metadata holds, the table_id and the image_path as given, both when both
\* are there.
C10_StatesEveryIdentifier ==
    ctxCall.built =>
        \A j \in 1..Len(ctxCall.context.blocks) :
            LET block == ctxCall.context.blocks[j]
                metadata == Get(Rendered[j], "metadata", EmptyDict)
            IN  /\ BlockStatesBasics(block, Rendered[j])
                /\ Truthy(metadata, "table_id") =>
                       Contains(block.page_line, metadata.table_id)
                /\ Truthy(metadata, "image_path") =>
                       Contains(block.page_line, metadata.image_path)

\* f is the file name of path: what follows the last separator of path, the
\* separator being the backslash when path has one and the slash otherwise.
IsFileNameOf(f, path) ==
    LET sep == IF Contains(path, "\\") THEN "\\" ELSE "/"
    IN  /\ ~Contains(f, sep)
        /\ \/ f = path
           \/ \E k \in 1..Len(path) :
                SubSeq(path, k, k) = sep /\ f = SubSeq(path, k + 1, Len(path))

\* C10 amended: every block states the basics and one identifier: the
\* table_id when the metadata has a non-empty one, otherwise the file name
\* of a non-empty image_path; with both, the table_id alone.
C10_StatesOneIdentifier ==
    ctxCall.built =>
        \A j \in 1..Len(ctxCall.context.blocks) :
            LET block == ctxCall.context.blocks[j]
                metadata == Get(Rendered[j], "metadata", EmptyDict)
            IN  /\ BlockStatesBasics(block, Rendered[j])
                /\ Truthy(metadata, "table_id") =>
                       /\ Contains(block.page_line, "Table ID: " \o metadata.table_id)
                       /\ ~Contains(block.page_line, "Image: ")
                /\ (~Truthy(metadata, "table_id") /\ Truthy(metadata, "image_path")) =>
                       \E k \in 1..(Len(block.page_line) - 6) :
                           /\ SubSeq(block.page_line, k, k + 6) = "Image: "
                           /\ IsFileNameOf(SubSeq(block.page_line, k + 7,
                                                  Len(block.page_line)),
                                           metadata.image_path)
                /\ (~Truthy(metadata, "table_id") /\ ~Truthy(metadata, "image_path")) =>
                       /\ ~Contains(block.page_line, "Table ID: ")
                       /\ ~Contains(block.page_line, "Image: ")

\* A context with a block for a result that has both identifiers and a block
\* for an image whose path has a directory part.
C10_Witness ==
    /\ ctxCall.built
    /\ Len(ctxCall.context.blocks) = 2
    /\ \E j \in 1..2 :
        LET metadata == Get(Rendered[j], "metadata", EmptyDict)
        IN  Truthy(metadata, "table_id") /\ Truthy(metadata, "image_path")
    /\ \E j \in 1..2 :
        LET metadata == Get(Rendered[j], "metadata", EmptyDict)
        IN  /\ ~Truthy(metadata, "table_id")
            /\ Truthy(metadata, "image_path")
            /\ Contains(metadata.image_path, "/")

\* --------------------------------------------- claims on the two programs
\* C3: when build_context returns the "no relevant information" sentinel,
\* the caller special-cases it: the provider is never asked to answer with
\* the sentinel as its context.
C3_SentinelNeverSent ==
    \A i \in 1..Len(requests) :
        requests[i].kind = "answer" =>
            \A m \in 1..Len(requests[i].messages) :
                requests[i].messages[m].context.text # NoInfo

\* C4: when answer generation fails, the caller gets the fixed failure
\* message, and the session history gains no assistant turn for the failed
\* answer.  Generation fails when the generate_answer call ends without an
\* answer: it returns None (or an empty answer), or the call itself raises.
C4_FailedAnswerNotRecorded ==
    /\ lastOp.generation = "failed" => lastOp.response = GenerationFailed
    /\ lastOp.generation \in {"failed", "raised"} =>
           AssistantTurns(messages) = lastOp.assistant_before

\* The window of the conversation state (spec 4.7); the code has none.
W == 4

\* C5: the session's history is bounded by the window W: whatever turns are
\* appended, it never holds more than W of them.
C5_HistoryBounded == Len(messages) <= W

\* C6: the reset empties the session's turns unconditionally: whatever the
\* history held and whether or not a QA system is connected, right after the
\* reset messages holds no turn.
C6_ResetEmptiesHistory == lastOp.kind = "reset" => messages = <<>>

\* A reset of a non-empty history with the QA system connected.
C6_Witness ==
    /\ lastOp.kind = "reset"
    /\ lastOp.assistant_before >= 2
    /\ qa_system
    /\ messages = <<>>

\* The turns recorded before the question the last chat operation handled.
PriorTurns == SubSeq(messages, 1, Len(messages) - 2)

\* Turns as entries of a request's messages list.
AsMessages(turns) ==
    [i \in 1..Len(turns) |-> Message(turns[i].role, turns[i].content, NoContext, "")]

\* C7: with conversation context enabled, the request sent to the provider
\* for a new question holds the prior turns, in chronological order, before
\* the user prompt with the new context block.
C7_HistorySentWhenEnabled ==
    (/\ lastOp.kind = "chat"
     /\ lastOp.use_conversation
     /\ lastOp.generation # "none"
     /\ PriorTurns # <<>>) =>
        \E i \in 1..Len(requests) :
            LET msgs == requests[i].messages
                n == Len(PriorTurns)
            IN  /\ requests[i].kind = "answer"
                /\ msgs[Len(msgs)] = Message("user", "", ctxCall.context, lastOp.query)
                /\ \E start \in 1..(Len(msgs) - n) :
                       SubSeq(msgs, start, start + n - 1) = AsMessages(PriorTurns)

\* C8: the toggle changes what is sent, never what is recorded: the response
\* and the references recorded for a question are the same with the toggle on
\* and off, and with the toggle off the request to the provider holds the
\* system prompt and the user prompt with the new context and the query,
\* nothing else.
C8_ToggleOnlyAffectsInclusion ==
    lastOp.kind = "chat" =>
        /\ \A llm \in LlmOutcomes :
            LET on == generate_response(lastOp.query, lastOp.top_k, TRUE,
                                        lastOp.search, llm)
                off == generate_response(lastOp.query, lastOp.top_k, FALSE,
                                         lastOp.search, llm)
            IN  on.response = off.response /\ on.references = off.references
        /\ (~lastOp.use_conversation /\ lastOp.generation # "none") =>
               \E i \in 1..Len(requests) :
                   /\ requests[i].kind = "answer"
                   /\ requests[i].messages =
                          <<Message("system", "system_prompt", NoContext, ""),
                            Message("user", "", ctxCall.context, lastOp.query)>>

\* ------------------------------------------------- degraded-mode retrieval
\* The operation lastOp records, run again on the results search hands it:
\* what it returns and what it sends the provider.
Returned(op, search) ==
    IF op.kind = "chat"
    THEN LET out == generate_response(op.query, op.top_k, op.use_conversation,
                                      search, "text")
         IN  [result |-> <<out.response, out.references>>, requests |-> out.requests]
    ELSE LET out == answer_question(op.query,
                                    hybrid_search(search.ranking, PipelineTopK),
                                    op.rewrite, op.rewriteLlm, op.answerLlm)
         IN  [result |-> out.result, requests |-> out.requests]

\* The same search with no flag of degraded operation on its results.
Unflagged(search) ==
    [search EXCEPT !.ranking = UnflagAll(search.ranking), !.degraded = FALSE]

\* The flag reaches the user: what the operation returned, or what it sent the
\* provider to answer from, differs from what the unflagged results give.
DegradedFlagShown(op) ==
    Returned(op, op.search) # Returned(op, Unflagged(op.search))

\* C11: when the embedding call fails during retrieval the request goes on
\* with the lexical results alone: unless the provider itself fails, the user
\* receives an answer, and the answer is flagged as degraded.
C11_DegradedAnswerFlagged ==
    (lastOp.search.degraded /\ lastOp.generation # "failed")
        => (lastOp.generation = "ok" /\ DegradedFlagShown(lastOp))

\* ------------------------------------------------------ Rank Fuser (spec 4.5)
\* The chunk ids the two rankings draw from, in their ascending order.
MaxIds == 3
ChunkIds == 1..MaxIds

\* The smoothing constant k of reciprocal-rank fusion (default 60).
RRF_K == 60

\* A ranked list of one method: chunk ids, best first, none twice.
RankedLists ==
    {s \in UNION {[1..n -> ChunkIds] : n \in 0..MaxIds} :
        \A i, j \in 1..Len(s) : i # j => s[i] # s[j]}

\* rank_in_list(chunk): the 1-based rank, 0 for a chunk the list lacks.
rank_in_list(list, chunk_id) ==
    IF \E i \in 1..Len(list) : list[i] = chunk_id
    THEN CHOOSE i \in 1..Len(list) : list[i] = chunk_id
    ELSE 0

\* Scores are kept exact as integers: every score is multiplied by the
\* product of (k + rank) over all ranks a list can hold.
RECURSIVE RankProduct(_)
RankProduct(n) == IF n = 0 THEN 1 ELSE (RRF_K + n) * RankProduct(n - 1)

RrfScale == RankProduct(MaxIds)

\* 1 / (k + rank_in_list(chunk)), 0 for a list that lacks the chunk.
contribution(list, chunk_id) ==
    IF rank_in_list(list, chunk_id) = 0 THEN 0
    ELSE RrfScale \div (RRF_K + rank_in_list(list, chunk_id))

\* rrf_score(chunk) = sum over the lists of 1 / (k + rank_in_list(chunk))
rrf_score(lexical, semantic, chunk_id) ==
    contribution(lexical, chunk_id) + contribution(semantic, chunk_id)

FusedResult(lexical, semantic, chunk_id) ==
    [chunk_id |-> chunk_id, rrf_score |-> rrf_score(lexical, semantic, chunk_id)]

\* The fused order: rrf_score descending, chunk_id ascending on ties.
FusedBefore(a, b) ==
    \/ a.rrf_score > b.rrf_score
    \/ a.rrf_score = b.rrf_score /\ a.chunk_id < b.chunk_id

RECURSIVE SortFused(_)
SortFused(S) ==
    IF S = {} THEN <<>>
    ELSE LET first == CHOOSE a \in S : \A b \in S \ {a} : FusedBefore(a, b)
         IN  <<first>> \o SortFused(S \ {first})

Range(s) == {s[i] : i \in 1..Len(s)}

\* The two lists put one after the other, every hit its own result.
fuse_appended(lexical, semantic) ==
    [i \in 1..Len(lexical) |-> FusedResult(lexical, <<>>, lexical[i])]
        \o [i \in 1..Len(semantic) |-> FusedResult(<<>>, semantic, semantic[i])]

\* The full deduplicated set of FusedResults in the fused order.
fuse(lexical, semantic) ==
    SortFused({FusedResult(lexical, semantic, c) : c \in Range(lexical) \cup Range(semantic)})

\* The values of top_k the fuser is asked for.
FuseTopKs == 1..MaxIds

\* A query with the two rankings the methods gave it, not yet fused.
InitFuse ==
    /\ program = "search"
    /\ messages = <<>>
    /\ user_questions = <<>>
    /\ qa_system = TRUE
    /\ search_engine = TRUE
    /\ uncaught = "none"
    /\ requests = <<>>
    /\ \E lexical, semantic \in RankedLists, top_k \in FuseTopKs :
            lastOp = [lexical |-> lexical, semantic |-> semantic, results |-> <<>>]
                     @@ [NoOp EXCEPT !.kind = "query", !.top_k = top_k]
    /\ ctxCall = NoCall
    /\ prevCitations = <<>>
    /\ rerendered = FALSE

\* hybrid_search(query, top_k) on the two rankings the query has: the first
\* top_k of the fused results.
HybridSearch ==
    /\ program = "search"
    /\ lastOp.kind = "query"
    /\ lastOp' = [lastOp EXCEPT
                    !.kind = "hybrid_search",
                    !.results = hybrid_search(fuse(lastOp.lexical, lastOp.semantic),
                                              lastOp.top_k)]
    /\ UNCHANGED <<program, sessionVars, requests, ctxCall, prevCitations, rerendered>>

NextFuse == HybridSearch

SpecFuse == InitFuse /\ [][NextFuse]_vars

\* C12: the list hybrid_search hands on has at most top_k entries and no chunk
\* twice, every entry's rrf_score is the sum over the two lists of
\* 1 / (k + rank), 0 for a list that lacks the chunk, and the entries are in
\* descending rrf_score, ascending chunk_id where the scores are equal.
C12_FusedOrder ==
    lastOp.kind = "hybrid_search" =>
        LET results == lastOp.results
        IN  /\ Len(results) <= lastOp.top_k
            /\ \A i, j \in 1..Len(results) :
                    i # j => results[i].chunk_id # results[j].chunk_id
            /\ \A i \in 1..Len(results) :
                    LET c == results[i].chunk_id
                        inLexical == \E r \in 1..Len(lastOp.lexical) : lastOp.lexical[r] = c
                        inSemantic == \E r \in 1..Len(lastOp.semantic) : lastOp.semantic[r] = c
                    IN  /\ inLexical \/ inSemantic
                        /\ \E l \in 0..Len(lastOp.lexical), s \in 0..Len(lastOp.semantic) :
                              /\ (l = 0) = ~inLexical
                              /\ (s = 0) = ~inSemantic
                              /\ l > 0 => lastOp.lexical[l] = c
                              /\ s > 0 => lastOp.semantic[s] = c
                              /\ results[i].rrf_score =
                                    (IF l = 0 THEN 0 ELSE RrfScale \div (RRF_K + l))
                                    + (IF s = 0 THEN 0 ELSE RrfScale \div (RRF_K + s))
            /\ \A i, j \in 1..Len(results) :
                    i < j => \/ results[i].rrf_score > results[j].rrf_score
                             \/ /\ results[i].rrf_score = results[j].rrf_score
                                /\ results[i].chunk_id < results[j].chunk_id

\* A chunk both lists rank comes first, two chunks with equal scores follow in
\* the order of their ids, and top_k cuts the last of them.
C12_Witness ==
    /\ lastOp.kind = "hybrid_search"
    /\ lastOp.lexical = <<2, 3>>
    /\ lastOp.semantic = <<1, 3>>
    /\ lastOp.top_k = 2
    /\ [i \in 1..Len(lastOp.results) |-> lastOp.results[i].chunk_id] = <<3, 1>>

\* ------------------------------------------------------------ caught errors
\* An error was caught while the operation ran: the rewrite failed, the
\* generation failed, or generate_response caught an exception.
ErrorCaught(op) ==
    \/ op.rewrite /\ op.rewriteLlm = "raise"
    \/ op.answerLlm = "raise"
    \/ op.kind = "chat" /\ (op.search.raised \/ op.generation = "raised")

\* What the operation returns to its caller when nothing fails: the answer to
\* the question as asked, or as rewritten where rewriting is on.
NormalReturns(op) ==
    {answer_question(op.query, hybrid_search(op.search.ranking, op.top_k),
                     rewrite, "text", "text").result : rewrite \in BOOLEAN}

\* C13: no error is silently swallowed: when an operation caught an error, the
\* value it returned tells so, it is not a value a run without error returns.
C13_CaughtErrorsFlagged ==
    (lastOp.kind \in {"interactive", "search_types", "chat"} /\ ErrorCaught(lastOp))
        => lastOp.response \notin NormalReturns(lastOp)

\* -------------------------------------- src/src/s4_chunking_strategy.py
\* ChunkingStrategy(chunk_size=800, overlap=100, model="gpt-4")
chunk_size == 800
overlap == 100

\* The records of one processed report: at most MaxUnits pages, tables and
\* images, each with the token count of its text.
MaxUnits == 2
PageTokens == {0, 500, 1700}
TableTokens == {100, 2000}
ImageTokens == {50, 900}

SeqsUpTo(S, n) == UNION {[1..m -> S] : m \in 0..n}

\* data["texts"], data["tables"], data["images"]
TextRecords == {[i \in 1..Len(s) |-> [text |-> s[i], page_num |-> i]] :
                    s \in SeqsUpTo(PageTokens, MaxUnits)}
TableRecords == {[i \in 1..Len(s) |-> [table_id |-> i, tokens |-> s[i]]] :
                    s \in SeqsUpTo(TableTokens, MaxUnits)}
ImageRecords == {[i \in 1..Len(s) |-> [image_path |-> i, tokens |-> s[i]]] :
                    s \in SeqsUpTo(ImageTokens, MaxUnits)}

Chunk(doc_type, id, page, token_count) ==
    [doc_type |-> doc_type, id |-> id, page |-> page,
     token_count |-> token_count, overlap_prefix |-> 0]

\* One page split left to right into the fewest chunks of at most chunk_size
\* tokens; a page with no text gives none.
RECURSIVE split_page(_, _)
split_page(tokens, page_num) ==
    IF tokens = 0 THEN <<>>
    ELSE IF tokens <= chunk_size THEN <<Chunk("text", 0, page_num, tokens)>>
    ELSE <<Chunk("text", 0, page_num, chunk_size)>>
            \o split_page(tokens - chunk_size, page_num)

\* chunker.chunk_pages(text_blocks, institution_code)
RECURSIVE chunk_pages(_)
chunk_pages(text_blocks) ==
    IF text_blocks = <<>> THEN <<>>
    ELSE split_page(Head(text_blocks).text, Head(text_blocks).page_num)
            \o chunk_pages(Tail(text_blocks))

\* chunker.make_table_to_chunk(table_data): the table whole, whatever its size.
make_table_to_chunk(table_data) ==
    Chunk("table", table_data.table_id, 0, table_data.tokens)

\* chunker.make_image_to_chunk(image_data): the description whole.
make_image_to_chunk(image_data) ==
    Chunk("image", image_data.image_path, 0, image_data.tokens)

\* chunker.apply_overlap(all_chunks): a text chunk that follows a text chunk
\* takes the last overlap tokens of it as its prefix; tables and images take
\* none.
apply_overlap(all_chunks) ==
    [i \in 1..Len(all_chunks) |->
        IF i > 1 /\ all_chunks[i].doc_type = "text" /\ all_chunks[i - 1].doc_type = "text"
        THEN [all_chunks[i] EXCEPT !.overlap_prefix = Min(overlap, all_chunks[i - 1].token_count)]
        ELSE all_chunks[i]]

\* text_blocks: every page's text and page number.
text_blocks_of(texts) ==
    [i \in 1..Len(texts) |-> [text |-> texts[i].text, page_num |-> texts[i].page_num]]

\* The tables that fit a chunk, each made a chunk.
table_chunks_fitting(tables) ==
    LET fitting == SelectSeq(tables, LAMBDA t : t.tokens <= chunk_size)
    IN  [i \in 1..Len(fitting) |-> make_table_to_chunk(fitting[i])]

\* for table_data in tables: table_chunks.append(make_table_to_chunk(table_data))
table_chunks_of(tables) ==
    [i \in 1..Len(tables) |-> make_table_to_chunk(tables[i])]

\* for image_data in images: image_chunks.append(make_image_to_chunk(image_data))
image_chunks_of(images) ==
    [i \in 1..Len(images) |-> make_image_to_chunk(images[i])]

\* The report of an institution before it is chunked: no file, or its records.
InitChunk ==
    /\ program = "chunking"
    /\ messages = <<>>
    /\ user_questions = <<>>
    /\ qa_system = TRUE
    /\ search_engine = TRUE
    /\ uncaught = "none"
    /\ requests = <<>>
    /\ \E found \in BOOLEAN, texts \in TextRecords, tables \in TableRecords,
          images \in ImageRecords :
            /\ ~found => (texts = <<>> /\ tables = <<>> /\ images = <<>>)
            /\ lastOp = [found |-> found, texts |-> texts, tables |-> tables,
                         images |-> images, all_chunks |-> <<>>,
                         final_chunks |-> None]
                        @@ [NoOp EXCEPT !.kind = "report"]
    /\ ctxCall = NoCall
    /\ prevCitations = <<>>
    /\ rerendered = FALSE

\* chunk_single_institution(institution)
ChunkSingleInstitution ==
    /\ program = "chunking"
    /\ lastOp.kind = "report"
    /\ IF ~lastOp.found
       THEN lastOp' = [lastOp EXCEPT !.kind = "chunked"]
       ELSE LET text_chunks == chunk_pages(text_blocks_of(lastOp.texts))
                table_chunks == table_chunks_of(lastOp.tables)
                image_chunks == image_chunks_of(lastOp.images)
                all_chunks == text_chunks \o table_chunks \o image_chunks
            IN  lastOp' = [lastOp EXCEPT
                             !.kind = "chunked",
                             !.all_chunks = all_chunks,
                             !.final_chunks = Some(apply_overlap(all_chunks))]
    /\ UNCHANGED <<program, sessionVars, requests, ctxCall, prevCitations, rerendered>>

NextChunk == ChunkSingleInstitution

SpecChunk == InitChunk /\ [][NextChunk]_vars

\* The chunks of one type among those handed to overlap linking.
Handed(doc_type) ==
    SelectSeq(lastOp.all_chunks, LAMBDA c : c.doc_type = doc_type)

\* C14: every table and every image of the input yields exactly one chunk,
\* whole whatever its size, so the table and image chunks handed to overlap
\* linking are as many as the input's tables and images.
C14_TablesAndImagesAtomic ==
    (lastOp.kind = "chunked" /\ lastOp.found) =>
        /\ Len(Handed("table")) = Len(lastOp.tables)
        /\ Len(Handed("image")) = Len(lastOp.images)
        /\ \A i \in 1..Len(lastOp.tables) :
              /\ Cardinality({j \in 1..Len(lastOp.all_chunks) :
                                /\ lastOp.all_chunks[j].doc_type = "table"
                                /\ lastOp.all_chunks[j].id = lastOp.tables[i].table_id}) = 1
              /\ Handed("table")[i].token_count = lastOp.tables[i].tokens
        /\ \A i \in 1..Len(lastOp.images) :
              /\ Cardinality({j \in 1..Len(lastOp.all_chunks) :
                                /\ lastOp.all_chunks[j].doc_type = "image"
                                /\ lastOp.all_chunks[j].id = lastOp.images[i].image_path}) = 1
              /\ Handed("image")[i].token_count = lastOp.images[i].tokens

\* A report with a page that is split, a table larger than a chunk and an
\* image larger than a chunk has been chunked.
C14_Witness ==
    /\ lastOp.kind = "chunked"
    /\ lastOp.found
    /\ \E i \in 1..Len(lastOp.texts) : lastOp.texts[i].text > chunk_size
    /\ \E i \in 1..Len(lastOp.tables) : lastOp.tables[i].tokens > chunk_size
    /\ \E i \in 1..Len(lastOp.images) : lastOp.images[i].tokens > chunk_size
    /\ Len(lastOp.all_chunks) > Len(lastOp.texts) + Len(lastOp.tables) + Len(lastOp.images)
    /\ lastOp.final_chunks # None

\* ------------------------------------------------- multi-institution flow
\* The context of the answer request the operation sent.
AnswerContext ==
    LET answer_requests == SelectSeq(requests, LAMBDA r : r.kind = "answer")
    IN  answer_requests[Len(answer_requests)].messages[2].context

\* C15: in the multi-institution flow the answer is generated from all the
\* results collected: every one of them, in the order collected, is a cited
\* block of the context given to answer generation.
C15_AllCollectedCited ==
    (lastOp.kind = "multi" /\ lastOp.all_results # <<>>) =>
        /\ \E i \in 1..Len(requests) : requests[i].kind = "answer"
        /\ Len(AnswerContext.blocks) = Len(lastOp.all_results)
        /\ \A j \in 1..Len(lastOp.all_results) :
              /\ HeaderIndex(AnswerContext.blocks[j]) = j
              /\ AnswerContext.blocks[j].content = lastOp.all_results[j].content

\* ------------------------------------------------------ turns of the chat
\* C16: handling one question appends exactly two turns, the user turn with
\* the input and then one assistant turn with the response, whatever path
\* generate_response took; so messages has even length and its roles
\* alternate user, assistant, starting with user.
C16_TwoTurnsPerQuestion ==
    /\ Len(messages) % 2 = 0
    /\ \A i \in 1..Len(messages) :
          messages[i].role = IF i % 2 = 1 THEN "user" ELSE "assistant"
    /\ lastOp.kind = "chat" =>
          /\ Len(messages) = 2 * lastOp.assistant_before + 2
          /\ messages[Len(messages) - 1] = [role |-> "user", content |-> lastOp.query]
          /\ messages[Len(messages)].role = "assistant"
          /\ messages[Len(messages)].content = lastOp.response

\* A second question has been handled and generate_response caught an
\* exception on it, after a first one that found the search engine's results
\* or a component missing.
C16_Witness ==
    /\ lastOp.kind = "chat"
    /\ lastOp.generation = "raised"
    /\ lastOp.assistant_before = 1
    /\ Len(messages) = 4
    /\ messages[4].content = ErrorResponse(UnexpectedKeyword("use_history"))

\* ---------------------------------------------- references of an answer
\* The reference list and the context generate_response builds from the
\* results of the last search: what an answer is stored with, and what the
\* answer is asked from.
AnswerReferences == references_of(ctxCall.search_results, lastOp.top_k)

\* Entry j and citation j come from the same search result: the entry's text
\* opens the block's content, and its page is the page the block states
\* wherever the result has one.
SameResult(entry, block, result) ==
    /\ entry = reference(result)
    /\ StartsWith(block.content, entry.text)
    /\ Len(block.content) <= ReferenceTextLimit => entry.text = block.content
    /\ ("metadata" \in DOMAIN result /\ "page" \in DOMAIN result.metadata)
          => StartsWith(block.page_line, "Page: " \o entry.page \o "p")

\* C17: the references stored with an assistant turn match the citations of
\* the context built for the answer.  The list built for an answer has
\* min(len(search_results), top_k) entries, the j-th from the same search
\* result as citation j, and is what a successful answer is stored with;
\* every turn that is not a successful answer is stored with an empty list.
C17_ReferencesMatchCitations ==
    lastOp.kind = "chat" =>
        LET stored == messages[Len(messages)].references
        IN  /\ lastOp.generation # "none" =>
                  /\ Len(AnswerReferences)
                        = Min(Len(ctxCall.search_results), lastOp.top_k)
                  /\ Len(AnswerReferences) = Len(ctxCall.context.blocks)
                  /\ \A j \in 1..Len(AnswerReferences) :
                        /\ HeaderIndex(ctxCall.context.blocks[j]) = j
                        /\ SameResult(AnswerReferences[j],
                                      ctxCall.context.blocks[j],
                                      ctxCall.search_results[j])
            /\ lastOp.generation = "ok" => stored = AnswerReferences
            /\ lastOp.generation # "ok" => stored = <<>>

\* A question whose search found three results has been handled: the list
\* for its answer has three entries, and the turn, not an answer, has none.
C17_Witness ==
    /\ lastOp.kind = "chat"
    /\ lastOp.generation = "raised"
    /\ Len(ctxCall.context.blocks) = 3
    /\ Len(AnswerReferences) = 3
    /\ messages[Len(messages)].references = <<>>

\* ------------------------------------------------- rewriting and context
\* The question in the answer request the operation sent.
AnswerQuery ==
    LET answer_requests == SelectSeq(requests, LAMBDA r : r.kind = "answer")
    IN  answer_requests[Len(answer_requests)].messages[2].query

\* C18: answer_question builds the context from its search_results alone:
\* with rewriting on or off, the rewrite succeeding or failing, the context
\* and its cited chunks are the same, and only the question sent to answer
\* generation differs, the rewritten text when the rewrite succeeds, the
\* question as asked when it fails or is off; the search ran before, on the
\* question as asked.
C18_RewriteLeavesContext ==
    (lastOp.kind \in {"interactive", "search_types", "multi"}
     /\ lastOp.generation # "none") =>
        /\ AnswerContext = build_context(ctxCall.search_results, DefaultMaxChunks)
        /\ \A rewrite \in BOOLEAN, rewriteLlm \in LlmOutcomes :
              LET other == answer_question(lastOp.query, ctxCall.search_results,
                                           rewrite, rewriteLlm, lastOp.answerLlm)
              IN  /\ other.context = AnswerContext
                  /\ Citations(other.context) = Citations(AnswerContext)
        /\ AnswerQuery =
              IF lastOp.rewrite /\ lastOp.rewriteLlm = "text" THEN Rewritten(lastOp.query)
              ELSE IF lastOp.rewrite /\ lastOp.rewriteLlm = "empty" THEN ""
              ELSE lastOp.query
        /\ lastOp.search_query = lastOp.query
        /\ (\E i \in 1..Len(requests) : requests[i].kind = "rewrite") = lastOp.rewrite

\* A round whose rewrite failed: the answer is asked with the question as
\* asked, from the three results the search found.
C18_Witness ==
    /\ lastOp.kind = "interactive"
    /\ lastOp.rewriteLlm = "raise"
    /\ lastOp.generation = "ok"
    /\ Len(AnswerContext.blocks) = 3
    /\ AnswerQuery = lastOp.query

====
